---- MODULE Spec2Model ----
(***************************************************************************)
(* The task-dispatch pipeline of ansible-runner-web: the /runTask handler  *)
(* sending on the unbuffered taskChan, the two worker loops                *)
(* (startRunAnsiblePlaybookService), runAnsiblePlaybook, updateTask,       *)
(* createTask/writeFile and main's teardown.                               *)
(*                                                                         *)
(* The repository holds two builds of the web server: the top-level one    *)
(* (src/unnamed/part_000, "root") and the older one kept in                *)
(* src/cmd/runner/main.go ("runner").  The variable `variant` says which   *)
(* build is running; it never changes.                                     *)
(***************************************************************************)
EXTENDS Naturals, FiniteSets, Sequences, TLC

\* ---------------------------------------------------------------- bounds
MaxTasks == 2       \* createTask requests (fresh uuids) considered
MaxTriggers == 3    \* GET /runTask/:id requests considered
MaxPlaybookLen == 3     \* characters of a submitted playbook body
MaxInventoryLen == 2    \* characters of a submitted inventory body

\* ------------------------------------------------------ program constants
WorkerCount == 2    \* for i := 0; i < 2; i++ { go startRunAnsiblePlaybookService }

Pending == 0
Running == 1
Succeeded == 2
Failed == 3

Variants == {"root", "runner"}
Workers == 0 .. (WorkerCount - 1)
TaskIds == 1 .. MaxTasks
Triggers == 1 .. MaxTriggers

\* What the external ansible-playbook process can do in one run: exit 0 with
\* well-formed output, a non-zero exit (a playbook file that was deleted is
\* one cause), the context's timeout, exit 0 with malformed output.
ExecOutcomes == {"ok", "exit", "timeout", "malformed"}
\* What one writeFile call can do.
WriteOutcomes == {"ok", "createErr", "writeErr"}
\* The "name" form field of a submission.
Names == {"ping-test", "deploy"}

VARIABLES
    variant,    \* which build runs
    tasks,      \* Task rows by task id: [row, status, error]
    files,      \* per task directory: site.yaml, inventory.ini, result.json
    pbRows,     \* task ids that have a Playbook row
    invRows,    \* task ids that have an Inventory row
    nextId,     \* the next fresh uuid
    aborted,    \* createTask requests answered with AbortWithError
    trig,       \* run-trigger requests: [st, id]
    closed,     \* close(taskChan) has happened
    pc,         \* each worker's position in its loop
    cur,        \* the taskId a worker received (0: none)
    out,        \* what the worker's external process did ("none": no run)
    err,        \* what runAnsiblePlaybook returned to the worker
    wrote,      \* whether the worker's run wrote result.json
    execs,      \* external processes in progress: [w, id]
    fresh,      \* a run-trigger for the task was issued since it last
                \* reached a terminal status
    started,    \* per task: how many times runAnsiblePlaybook was called
    mainPc,     \* main: "wait" (wait.Wait), "shutdown", "exited"
    srv,        \* the HTTP listener: "up" | "down"
    form,       \* the playbook and inventory bodies of a submission
    disk        \* the contents of site.yaml and inventory.ini written for it

vars == <<variant, tasks, files, pbRows, invRows, nextId, aborted, trig,
          closed, pc, cur, out, err, wrote, execs, fresh, started, mainPc, srv,
          form, disk>>

createVars == <<files, pbRows, invRows, nextId, aborted, form, disk>>
workerVars == <<pc, cur, out, err, wrote, execs>>
mainVars == <<mainPc, srv>>

\* A Task row: whether it exists, and its columns status, error, name,
\* task_id, playbook_id, inventory_id, user_id (updated_at is left out: every
\* update sets it to time.Now()).
NoRow == [row |-> FALSE, status |-> Pending, error |-> "", name |-> "",
          taskId |-> 0, playbookId |-> 0, inventoryId |-> 0, userId |-> 0]
NoFiles == [site |-> FALSE, inventory |-> FALSE, result |-> FALSE]
NoTrig == [st |-> "idle", id |-> 0]

Terminal(s) == s \in {Succeeded, Failed}
\* ------------------------------------------------------------ the store
\* (mutant) a full-row overwrite (Save) of the struct literal: every column
\* the literal does not set is written with its zero value.
UpdatesFullRow(row, st, er) ==
    [row EXCEPT !.status = st, !.error = er, !.name = "",
                !.playbookId = 0, !.inventoryId = 0, !.userId = 0]

\* gorm's Updates with a struct argument writes the non-zero fields only:
\* a Status of 0 and an Error of "" are left out of the UPDATE statement.
Updates(row, st, er) ==
    [row EXCEPT !.status = IF st # 0 THEN st ELSE @,
                !.error = IF er # "" THEN er ELSE @]

\* updateTask: the root build passes Status, UpdatedAt and Error to Updates,
\* the runner build passes Status and UpdatedAt only.
updateTask(v, row, st, er) ==
    IF v = "root" THEN Updates(row, st, er) ELSE Updates(row, st, "")

\* ------------------------------------------------------- the materializer
\* writeFile: os.Create fails (no file), or WriteString fails (a partial
\* file), or the content is written.  written: the file holds the content.
writeFile(o) == [failed |-> o # "ok", written |-> o = "ok"]

\* createTask as a function of what its two writeFile calls and its three
\* db.Create calls do (dbFail: 0 none fails, 1 the Playbook insert, 2 the
\* Inventory insert, 3 the Task insert).  The result says which files and
\* rows exist afterwards and whether AbortWithError was called.
createTask(pbW, invW, dbFail) ==
    LET pb == writeFile(pbW)
        inv == writeFile(invW)
        none == [site |-> pb.written, inventory |-> FALSE, pbRow |-> FALSE,
                 invRow |-> FALSE, taskRow |-> FALSE, aborted |-> TRUE]
    IN  IF pb.failed THEN none                       \* AbortWithError; return
        ELSE IF dbFail = 1 THEN none                 \* AbortWithError; return
        \* the inventory writeFile error: AbortWithError and NO return
        ELSE IF dbFail = 2
            THEN [none EXCEPT !.inventory = inv.written, !.pbRow = TRUE]
        ELSE IF dbFail = 3
            THEN [none EXCEPT !.inventory = inv.written, !.pbRow = TRUE,
                              !.invRow = TRUE]
        ELSE [site |-> pb.written, inventory |-> inv.written, pbRow |-> TRUE,
              invRow |-> TRUE, taskRow |-> TRUE, aborted |-> inv.failed]

\* --------------------------------------------------- the files' contents
\* A text is a sequence of characters; LF and CR are "\n" and "\r".  The
\* fixed lines the code writes are kept as one element each.
LF == "\n"
CR == "\r"
Chars == {"a", "b", " ", LF, CR}

RECURSIVE TextsUpTo(_)
TextsUpTo(n) ==
    IF n = 0 THEN {<<>>}
    ELSE LET shorter == TextsUpTo(n - 1)
         IN  shorter \cup {Append(t, c) : t \in {u \in shorter : Len(u) = n - 1},
                                           c \in Chars}

Forms == [playbook : TextsUpTo(MaxPlaybookLen), inventory : TextsUpTo(MaxInventoryLen)]

NoForm == [playbook |-> <<>>, inventory |-> <<>>]
NoDisk == [written |-> FALSE, site |-> <<>>, inventory |-> <<>>]

\* (mutant) nothing is replaced.
ReplaceAllNothing(s, old) == s

\* strings.ReplaceAll(s, old, ""), old one character.
ReplaceAll(s, old) == SelectSeq(s, LAMBDA c : c # old)

\* strings.Split(s, sep), sep one character: the pieces between the
\* separators, one more than there are separators.
RECURSIVE Split(_, _)
Split(s, sep) ==
    IF \A i \in 1 .. Len(s) : s[i] # sep THEN <<s>>
    ELSE LET i == CHOOSE j \in 1 .. Len(s) :
                      s[j] = sep /\ \A h \in 1 .. (j - 1) : s[h] # sep
         IN  <<SubSeq(s, 1, i - 1)>> \o Split(SubSeq(s, i + 1, Len(s)), sep)

\* The lines createTask writes before the body: "- hosts: servers\n" and
\* "  tasks:\n", with "  gather_facts: false\n" between them in the runner
\* build.
HostsLine == <<"- hosts: servers">>
GatherFactsLine == <<"  gather_facts: false">>
TasksMarker == <<"  tasks:">>
HeaderLines(v) ==
    IF v = "root" THEN <<HostsLine, TasksMarker>>
    ELSE <<HostsLine, GatherFactsLine, TasksMarker>>

\* w.WriteString of each element of lines followed by "\n".
RECURSIVE WriteLines(_)
WriteLines(lines) ==
    IF lines = <<>> THEN <<>>
    ELSE Head(lines) \o <<LF>> \o WriteLines(Tail(lines))

Indent == <<" ", " ">>

\* The buffer written to site.yaml: the header lines, then, with the carriage
\* returns removed from the body, "  " + v + "\n" for each v of the body
\* split on "\n".
siteYaml(v, playbookContent) ==
    LET body == ReplaceAll(playbookContent, CR)
        pieces == Split(body, LF)
    IN  WriteLines(HeaderLines(v))
            \o WriteLines([i \in 1 .. Len(pieces) |-> Indent \o pieces[i]])

ServersLine == <<"[servers]">>

\* (mutant) the inventory body is normalised like the playbook body.
inventoryIniNormalised(inventoryContent) ==
    ServersLine \o <<LF>> \o ReplaceAll(inventoryContent, CR)

\* The buffer written to inventory.ini: "[servers]\n", then the body.
inventoryIni(inventoryContent) == ServersLine \o <<LF>> \o inventoryContent

\* ----------------------------------------------------------- the executor
\* runAnsiblePlaybook as a function of what the external process does
\* (outcome) and of whether os.WriteFile of result.json works (writeOk).
\* err is the returned error ("nil": none), wrote says whether result.json
\* was written.
\*   root build:   the error of exec.Execute is printed and dropped, the
\*                 captured output is written whatever it is, a failed
\*                 write is printed, and nil is returned.
\*   runner build: the error of exec.Execute, of ParseJSONResultsStream and
\*                 of os.WriteFile is returned, nothing is written before.
runAnsiblePlaybook(v, outcome, writeOk) ==
    IF v = "root" THEN [err |-> "nil", wrote |-> writeOk]
    ELSE IF outcome # "ok" THEN [err |-> outcome, wrote |-> FALSE]
    ELSE IF writeOk THEN [err |-> "nil", wrote |-> TRUE]
    ELSE [err |-> "write", wrote |-> FALSE]

\* The worker's choice of the final status and error from the returned err:
\* task.Status = 3, task.Error = the message; or task.Status = 2 (and, in the
\* root build, task.Error = "").  The runner build's untouched task.Error on
\* success is never written by its updateTask, so "" stands for it.
finalStatus(e) == IF e # "nil" THEN Failed ELSE Succeeded
finalError(e) == IF e # "nil" THEN e ELSE ""

\* ------------------------------------------------------------------ Init
Init ==
    /\ variant \in Variants
    /\ tasks = [t \in TaskIds |-> NoRow]
    /\ files = [t \in TaskIds |-> NoFiles]
    /\ pbRows = {}
    /\ invRows = {}
    /\ nextId = 1
    /\ aborted = {}
    /\ trig = [k \in Triggers |-> NoTrig]
    /\ closed = FALSE
    /\ pc = [w \in Workers |-> "recv"]
    /\ cur = [w \in Workers |-> 0]
    /\ out = [w \in Workers |-> "none"]
    /\ err = [w \in Workers |-> "nil"]
    /\ wrote = [w \in Workers |-> FALSE]
    /\ execs = {}
    /\ fresh = [t \in TaskIds |-> FALSE]
    /\ started = [t \in TaskIds |-> 0]
    /\ mainPc = "wait"
    /\ srv = "up"
    /\ form = NoForm
    /\ disk = NoDisk
\* -------------------------------------------------------- HTTP handlers
\* POST /task: createTask with a fresh uuid; WS and DS are the outcomes of
\* the writes and of the inserts that are considered, NS the submitted names.
\* playbook.ID and inventory.ID are the autoincrement keys of the rows just
\* inserted, UserID is 1.
CreateTaskIn(WS, DS, NS) ==
    /\ srv = "up"
    /\ nextId <= MaxTasks
    /\ \E pbW \in WS, invW \in WS, dbFail \in DS, taskName \in NS :
         LET r == createTask(pbW, invW, dbFail)
             id == nextId
         IN  /\ files' = [files EXCEPT ![id].site = r.site,
                                       ![id].inventory = r.inventory]
             /\ pbRows' = IF r.pbRow THEN pbRows \cup {id} ELSE pbRows
             /\ invRows' = IF r.invRow THEN invRows \cup {id} ELSE invRows
             /\ tasks' = IF r.taskRow
                            THEN [tasks EXCEPT ![id] =
                                    [row |-> TRUE, status |-> Pending,
                                     error |-> "", name |-> taskName,
                                     taskId |-> id,
                                     playbookId |-> Cardinality(pbRows) + 1,
                                     inventoryId |-> Cardinality(invRows) + 1,
                                     userId |-> 1]]
                            ELSE tasks
             /\ aborted' = IF r.aborted THEN aborted \cup {id} ELSE aborted
             /\ nextId' = nextId + 1
    /\ UNCHANGED <<variant, trig, closed, fresh, started, form, disk>>
    /\ UNCHANGED workerVars
    /\ UNCHANGED mainVars

CreateTask == CreateTaskIn(WriteOutcomes, 0 .. 3, {"ping-test"})

\* The run-trigger requests are numbered in the order they arrive.
NextTrigger(k) == trig[k].st = "idle" /\ \A j \in Triggers : j < k => trig[j].st # "idle"

\* (mutant) a non-blocking send: with no worker at the receive the id is
\* dropped instead of blocking the request.
RunTaskNonBlocking(k, id) ==
    /\ srv = "up"
    /\ NextTrigger(k)
    /\ trig' = [trig EXCEPT ![k] =
                 [st |-> IF closed THEN "panicked"
                         ELSE IF \E w \in DOMAIN pc : pc[w] = "recv"
                             THEN "blocked" ELSE "dropped",
                  id |-> id]]
    /\ fresh' = [fresh EXCEPT ![id] = TRUE]
    /\ UNCHANGED <<variant, tasks, closed, started>>
    /\ UNCHANGED createVars
    /\ UNCHANGED workerVars
    /\ UNCHANGED mainVars

\* GET /runTask/:id: taskChan <- taskId.  On an open channel the handler
\* blocks until a worker receives; on a closed channel the send panics
\* (gin's Recovery answers 500).
RunTask(k, id) ==
    /\ srv = "up"
    /\ NextTrigger(k)
    /\ trig' = [trig EXCEPT ![k] = [st |-> IF closed THEN "panicked" ELSE "blocked",
                                    id |-> id]]
    /\ fresh' = [fresh EXCEPT ![id] = TRUE]
    /\ UNCHANGED <<variant, tasks, closed, started>>
    /\ UNCHANGED createVars
    /\ UNCHANGED workerVars
    /\ UNCHANGED mainVars

\* ------------------------------------------ startRunAnsiblePlaybookService
\* (mutant) a broadcast: every worker waiting at the receive gets the id.
ReceiveBroadcast(w, k) ==
    /\ pc[w] = "recv"
    /\ ~closed
    /\ trig[k].st = "blocked"
    /\ trig' = [trig EXCEPT ![k].st = "received"]
    /\ cur' = [v \in Workers |-> IF pc[v] = "recv" THEN trig[k].id ELSE cur[v]]
    /\ pc' = [v \in Workers |-> IF pc[v] = "recv" THEN "lookup" ELSE pc[v]]
    /\ UNCHANGED <<variant, tasks, closed, out, err, wrote, execs, fresh, started>>
    /\ UNCHANGED createVars
    /\ UNCHANGED mainVars

\* case taskId, ok := <-taskChan with ok: the rendezvous with one blocked
\* sender.
Receive(w, k) ==
    /\ pc[w] = "recv"
    /\ ~closed
    /\ trig[k].st = "blocked"
    /\ trig' = [trig EXCEPT ![k].st = "received"]
    /\ cur' = [cur EXCEPT ![w] = trig[k].id]
    /\ pc' = [pc EXCEPT ![w] = "lookup"]
    /\ UNCHANGED <<variant, tasks, closed, out, err, wrote, execs, fresh, started>>
    /\ UNCHANGED createVars
    /\ UNCHANGED mainVars

\* (mutant) the loop also watches for the close while a job is in progress
\* and returns at once, abandoning the job.
ReceiveClosedAbandons(w) ==
    /\ pc[w] # "stopped"
    /\ closed
    /\ pc' = [pc EXCEPT ![w] = "stopped"]
    /\ UNCHANGED <<variant, tasks, trig, closed, cur, out, err, wrote, execs, fresh, started>>
    /\ UNCHANGED createVars
    /\ UNCHANGED mainVars

\* The receive on the closed channel: !ok, return; the deferred wait.Done.
ReceiveClosed(w) ==
    /\ pc[w] = "recv"
    /\ closed
    /\ pc' = [pc EXCEPT ![w] = "stopped"]
    /\ UNCHANGED <<variant, tasks, trig, closed, cur, out, err, wrote, execs, fresh, started>>
    /\ UNCHANGED createVars
    /\ UNCHANGED mainVars

\* (mutant) on a lookup error the worker returns instead of continuing.
LookupReturns(w) ==
    /\ pc[w] = "lookup"
    /\ \E dbOk \in BOOLEAN :
         IF dbOk /\ tasks[cur[w]].row
            THEN /\ pc' = [pc EXCEPT ![w] = "mark"]
                 /\ cur' = cur
            ELSE /\ pc' = [pc EXCEPT ![w] = "stopped"]
                 /\ cur' = [cur EXCEPT ![w] = 0]
    /\ UNCHANGED <<variant, tasks, trig, closed, out, err, wrote, execs, fresh, started>>
    /\ UNCHANGED createVars
    /\ UNCHANGED mainVars

\* db...First(&task, "task_id = ?", taskId): an error (no such row, or the
\* database fails) is printed and the loop continues.
Lookup(w) ==
    /\ pc[w] = "lookup"
    /\ \E dbOk \in BOOLEAN :
         IF dbOk /\ tasks[cur[w]].row
            THEN /\ pc' = [pc EXCEPT ![w] = "mark"]
                 /\ cur' = cur
            ELSE /\ pc' = [pc EXCEPT ![w] = "recv"]
                 /\ cur' = [cur EXCEPT ![w] = 0]
    /\ UNCHANGED <<variant, tasks, trig, closed, out, err, wrote, execs, fresh, started>>
    /\ UNCHANGED createVars
    /\ UNCHANGED mainVars

\* (mutant) the error of the Running update is printed and the run goes on.
MarkRunningIgnoresError(w) ==
    /\ pc[w] = "mark"
    /\ \E dbOk \in BOOLEAN :
         tasks' = IF dbOk THEN [tasks EXCEPT ![cur[w]] = Updates(@, Running, "")]
                  ELSE tasks
    /\ execs' = execs \cup {[w |-> w, id |-> cur[w]]}
    /\ started' = [started EXCEPT ![cur[w]] = @ + 1]
    /\ pc' = [pc EXCEPT ![w] = "exec"]
    /\ UNCHANGED <<variant, trig, closed, cur, out, err, wrote, fresh>>
    /\ UNCHANGED createVars
    /\ UNCHANGED mainVars

\* db.Where("task_id = ?", taskId).Updates(Task{Status: 1, UpdatedAt: now});
\* on an error continue, otherwise the call of runAnsiblePlaybook starts the
\* external process.
MarkRunning(w) ==
    /\ pc[w] = "mark"
    /\ \E dbOk \in BOOLEAN :
         IF dbOk
            THEN /\ tasks' = [tasks EXCEPT ![cur[w]] = Updates(@, Running, "")]
                 /\ execs' = execs \cup {[w |-> w, id |-> cur[w]]}
                 /\ started' = [started EXCEPT ![cur[w]] = @ + 1]
                 /\ pc' = [pc EXCEPT ![w] = "exec"]
                 /\ cur' = cur
            ELSE /\ pc' = [pc EXCEPT ![w] = "recv"]
                 /\ cur' = [cur EXCEPT ![w] = 0]
                 /\ UNCHANGED <<tasks, execs, started>>
    /\ UNCHANGED <<variant, trig, closed, out, err, wrote, fresh>>
    /\ UNCHANGED createVars
    /\ UNCHANGED mainVars

\* (mutant) runAnsiblePlaybook returns without waiting for the external
\* process, which stays in progress while the worker goes on.
ExecuteDetached(w) ==
    /\ pc[w] = "exec"
    /\ \E outcome \in ExecOutcomes, writeOk \in BOOLEAN :
         LET r == runAnsiblePlaybook(variant, outcome, writeOk)
         IN  /\ files' = [files EXCEPT ![cur[w]].result = @ \/ r.wrote]
             /\ out' = [out EXCEPT ![w] = outcome]
             /\ err' = [err EXCEPT ![w] = r.err]
             /\ wrote' = [wrote EXCEPT ![w] = r.wrote]
    /\ execs' = execs
    /\ pc' = [pc EXCEPT ![w] = "update"]
    /\ UNCHANGED <<variant, tasks, pbRows, invRows, nextId, aborted, trig,
                   closed, cur, fresh, started, form, disk>>
    /\ UNCHANGED mainVars

\* (mutant) after the run the worker goes straight back to the receive,
\* without the final update.
ExecuteSkipsUpdate(w) ==
    /\ pc[w] = "exec"
    /\ execs' = execs \ {[w |-> w, id |-> cur[w]]}
    /\ pc' = [pc EXCEPT ![w] = "recv"]
    /\ cur' = [cur EXCEPT ![w] = 0]
    /\ UNCHANGED <<variant, tasks, trig, closed, out, err, wrote, fresh, started>>
    /\ UNCHANGED createVars
    /\ UNCHANGED mainVars

\* The external process ends (at the latest by the timeout) and
\* runAnsiblePlaybook returns.
Execute(w) ==
    /\ pc[w] = "exec"
    /\ \E outcome \in ExecOutcomes, writeOk \in BOOLEAN :
         LET r == runAnsiblePlaybook(variant, outcome, writeOk)
         IN  /\ files' = [files EXCEPT ![cur[w]].result = @ \/ r.wrote]
             /\ out' = [out EXCEPT ![w] = outcome]
             /\ err' = [err EXCEPT ![w] = r.err]
             /\ wrote' = [wrote EXCEPT ![w] = r.wrote]
    /\ execs' = execs \ {[w |-> w, id |-> cur[w]]}
    /\ pc' = [pc EXCEPT ![w] = "update"]
    /\ UNCHANGED <<variant, tasks, pbRows, invRows, nextId, aborted, trig,
                   closed, cur, fresh, started, form, disk>>
    /\ UNCHANGED mainVars

\* (mutant) a failed final update is retried by running the job again.
FinalUpdateRetries(w) ==
    /\ pc[w] = "update"
    /\ \E dbOk \in BOOLEAN :
         IF dbOk
            THEN /\ tasks' = [tasks EXCEPT ![cur[w]] =
                        updateTask(variant, @, finalStatus(err[w]), finalError(err[w]))]
                 /\ fresh' = IF Terminal(tasks[cur[w]].status) THEN fresh
                             ELSE [fresh EXCEPT ![cur[w]] = FALSE]
                 /\ pc' = [pc EXCEPT ![w] = "recv"]
                 /\ cur' = [cur EXCEPT ![w] = 0]
            ELSE /\ pc' = [pc EXCEPT ![w] = "mark"]
                 /\ UNCHANGED <<tasks, fresh, cur>>
    /\ out' = [out EXCEPT ![w] = "none"]
    /\ err' = [err EXCEPT ![w] = "nil"]
    /\ wrote' = [wrote EXCEPT ![w] = FALSE]
    /\ UNCHANGED <<variant, trig, closed, execs, started>>
    /\ UNCHANGED createVars
    /\ UNCHANGED mainVars

\* task.Status, task.Error from err; updateTask(task); an error of the
\* update is printed and the loop continues.
FinalUpdate(w) ==
    /\ pc[w] = "update"
    /\ \E dbOk \in BOOLEAN :
         IF dbOk
            THEN /\ tasks' = [tasks EXCEPT ![cur[w]] =
                        updateTask(variant, @, finalStatus(err[w]), finalError(err[w]))]
                 /\ fresh' = IF Terminal(tasks[cur[w]].status) THEN fresh
                             ELSE [fresh EXCEPT ![cur[w]] = FALSE]
            ELSE UNCHANGED <<tasks, fresh>>
    /\ pc' = [pc EXCEPT ![w] = "recv"]
    /\ cur' = [cur EXCEPT ![w] = 0]
    /\ out' = [out EXCEPT ![w] = "none"]
    /\ err' = [err EXCEPT ![w] = "nil"]
    /\ wrote' = [wrote EXCEPT ![w] = FALSE]
    /\ UNCHANGED <<variant, trig, closed, execs, started>>
    /\ UNCHANGED createVars
    /\ UNCHANGED mainVars

\* ------------------------------------------------------------------ main
\* (mutant) close(taskChan) leaves the blocked senders blocked.
SignalKeepsSenders ==
    /\ ~closed
    /\ closed' = TRUE
    /\ UNCHANGED <<variant, tasks, trig, fresh, started>>
    /\ UNCHANGED createVars
    /\ UNCHANGED workerVars
    /\ UNCHANGED mainVars

\* The signal goroutine: name := <-quit; close(taskChan).  Closing wakes
\* every sender blocked on the channel, and each of them panics.
Signal ==
    /\ ~closed
    /\ closed' = TRUE
    /\ trig' = [k \in Triggers |->
                  IF trig[k].st = "blocked"
                     THEN [trig[k] EXCEPT !.st = "panicked"] ELSE trig[k]]
    /\ UNCHANGED <<variant, tasks, fresh, started>>
    /\ UNCHANGED createVars
    /\ UNCHANGED workerVars
    /\ UNCHANGED mainVars

\* (mutant) wait.Wait() does not wait (the workers were never added to the
\* WaitGroup).
AllWorkersStoppedMut == TRUE
\* wait.Wait() returns when both workers have called wait.Done.
AllWorkersStopped == \A w \in Workers : pc[w] = "stopped"

MainWaitReturns ==
    /\ mainPc = "wait"
    /\ AllWorkersStopped
    /\ mainPc' = "shutdown"
    /\ UNCHANGED <<variant, tasks, trig, closed, fresh, started, srv>>
    /\ UNCHANGED createVars
    /\ UNCHANGED workerVars

\* srv.Shutdown(ctx): the listener is closed.
SrvShutdown ==
    /\ mainPc = "shutdown"
    /\ srv = "up"
    /\ srv' = "down"
    /\ UNCHANGED <<variant, tasks, trig, closed, fresh, started, mainPc>>
    /\ UNCHANGED createVars
    /\ UNCHANGED workerVars

\* "Server exiting" (or log.Fatal on a Shutdown error): main returns.
MainExit ==
    /\ mainPc = "shutdown"
    /\ srv = "down"
    /\ mainPc' = "exited"
    /\ UNCHANGED <<variant, tasks, trig, closed, fresh, started, srv>>
    /\ UNCHANGED createVars
    /\ UNCHANGED workerVars

WorkerStep(w) ==
    \/ \E k \in Triggers : Receive(w, k)
    \/ ReceiveClosed(w)
    \/ Lookup(w)
    \/ MarkRunning(w)
    \/ Execute(w)
    \/ FinalUpdate(w)

\* Everything but the submissions.
Serve ==
    \/ \E k \in Triggers, id \in TaskIds : RunTask(k, id)
    \/ \E w \in Workers : WorkerStep(w)
    \/ Signal
    \/ MainWaitReturns
    \/ SrvShutdown
    \/ MainExit

Next == CreateTask \/ Serve

Spec == Init /\ [][Next]_vars

\* The liveness specification.  Each worker goroutine is scheduled (weak
\* fairness of its steps; an execution ends at the latest by its timeout), and
\* so is main.  No request and no signal is ever required to happen.  The
\* submissions considered here are those whose writes and inserts succeed: a
\* failed submission leaves no Task row and a worker treats its id like any
\* unknown id.
CreateTaskOk == CreateTaskIn({"ok"}, {0}, {"ping-test"})

NextFair == CreateTaskOk \/ Serve

Fairness ==
    /\ \A w \in Workers : WF_vars(WorkerStep(w))
    /\ WF_vars(MainWaitReturns)
    /\ WF_vars(SrvShutdown)
    /\ WF_vars(MainExit)

SpecFair == Init /\ [][NextFair]_vars /\ Fairness

\* The liveness specification under the proviso that the final update of a
\* run succeeds: the worker's last step is a final update after which the task
\* has a terminal status.
FinalUpdateApplied(w) == FinalUpdate(w) /\ Terminal(tasks'[cur[w]].status)

WorkerStepApplied(w) ==
    \/ \E k \in Triggers : Receive(w, k)
    \/ ReceiveClosed(w)
    \/ Lookup(w)
    \/ MarkRunning(w)
    \/ Execute(w)
    \/ FinalUpdateApplied(w)

NextApplied ==
    \/ CreateTaskOk
    \/ \E k \in Triggers, id \in TaskIds : RunTask(k, id)
    \/ \E w \in Workers : WorkerStepApplied(w)
    \/ Signal
    \/ MainWaitReturns
    \/ SrvShutdown
    \/ MainExit

FairnessApplied ==
    /\ \A w \in Workers : WF_vars(WorkerStepApplied(w))
    /\ WF_vars(MainWaitReturns)
    /\ WF_vars(SrvShutdown)
    /\ WF_vars(MainExit)

SpecApplied == Init /\ [][NextApplied]_vars /\ FairnessApplied

\* The specification for the Task rows' columns: the submissions are those
\* whose writes and inserts succeed, with any of the names.
CreateTaskNamed == CreateTaskIn({"ok"}, {0}, Names)

NextStore == CreateTaskNamed \/ Serve

SpecStore == Init /\ [][NextStore]_vars

\* The specification for a store that is not empty at startup.  setupDB opens
\* the file data.db and AutoMigrate keeps the rows it holds, so the process can
\* start with the rows of an earlier run: here task 1, with its two files and
\* its Playbook and Inventory rows.  A stored row is Pending, Succeeded (with
\* its result.json) or Failed; the error column of a Failed row holds what the
\* update of that failure wrote, a message or nothing.
StoredErrors == {"", "exit"}
StoredRows ==
    {r \in [row : {TRUE}, status : {Pending, Succeeded, Failed},
            error : StoredErrors, name : {"ping-test"}, taskId : {1},
            playbookId : {1}, inventoryId : {1}, userId : {1}] :
        r.error # "" => r.status = Failed}

InitStored ==
    /\ variant \in Variants
    /\ \E r \in StoredRows :
         /\ tasks = [t \in TaskIds |-> IF t = 1 THEN r ELSE NoRow]
         /\ files = [t \in TaskIds |->
                       IF t = 1 THEN [site |-> TRUE, inventory |-> TRUE,
                                      result |-> r.status = Succeeded]
                       ELSE NoFiles]
    /\ pbRows = {1}
    /\ invRows = {1}
    /\ nextId = 2
    /\ aborted = {}
    /\ trig = [k \in Triggers |-> NoTrig]
    /\ closed = FALSE
    /\ pc = [w \in Workers |-> "recv"]
    /\ cur = [w \in Workers |-> 0]
    /\ out = [w \in Workers |-> "none"]
    /\ err = [w \in Workers |-> "nil"]
    /\ wrote = [w \in Workers |-> FALSE]
    /\ execs = {}
    /\ fresh = [t \in TaskIds |-> FALSE]
    /\ started = [t \in TaskIds |-> 0]
    /\ mainPc = "wait"
    /\ srv = "up"
    /\ form = NoForm
    /\ disk = NoDisk

SpecStored == InitStored /\ [][NextFair]_vars

\* The specification for the files' contents: a submission with any bodies
\* (form), and the part of createTask that builds the two buffers and writes
\* them with writeFile, both writes succeeding.
InitMaterialize ==
    /\ variant \in Variants
    /\ tasks = [t \in TaskIds |-> NoRow]
    /\ files = [t \in TaskIds |-> NoFiles]
    /\ pbRows = {}
    /\ invRows = {}
    /\ nextId = 1
    /\ aborted = {}
    /\ trig = [k \in Triggers |-> NoTrig]
    /\ closed = FALSE
    /\ pc = [w \in Workers |-> "recv"]
    /\ cur = [w \in Workers |-> 0]
    /\ out = [w \in Workers |-> "none"]
    /\ err = [w \in Workers |-> "nil"]
    /\ wrote = [w \in Workers |-> FALSE]
    /\ execs = {}
    /\ fresh = [t \in TaskIds |-> FALSE]
    /\ started = [t \in TaskIds |-> 0]
    /\ mainPc = "wait"
    /\ srv = "up"
    /\ form \in Forms
    /\ disk = NoDisk

Materialize ==
    /\ ~disk.written
    /\ disk' = [written |-> writeFile("ok").written,
                site |-> siteYaml(variant, form.playbook),
                inventory |-> inventoryIni(form.inventory)]
    /\ files' = [files EXCEPT ![nextId].site = TRUE, ![nextId].inventory = TRUE]
    /\ UNCHANGED <<variant, tasks, pbRows, invRows, nextId, aborted, trig,
                   closed, fresh, started, form>>
    /\ UNCHANGED workerVars
    /\ UNCHANGED mainVars

NextMaterialize == Materialize

SpecMaterialize == InitMaterialize /\ [][NextMaterialize]_vars

\* ---------------------------------------------------------------- claims

\* C1: the persisted status only moves along Pending -> Running ->
\* {Succeeded | Failed}: a task leaves a terminal status only for Running and
\* only when a run-trigger for it was issued after it reached the terminal
\* status, and it never moves directly between Succeeded and Failed.
StatusStepAllowed(t) ==
    LET s == tasks[t].status
        s2 == tasks'[t].status
    IN  \/ s2 = s
        \/ s = Pending /\ s2 = Running
        \/ s = Running /\ Terminal(s2)
        \/ Terminal(s) /\ s2 = Running /\ fresh[t]

C1_StatusMonotonic == [][\A t \in TaskIds : StatusStepAllowed(t)]_vars

\* C2 as stated: in every reachable state, shutdown included, each issued
\* run-trigger is either still blocked on the send or has been received by a
\* worker.
C2_EveryTriggerBlockedOrReceived ==
    \A k \in Triggers : trig[k].st \in {"idle", "blocked", "received"}

\* A trigger leaves the blocked send in one of two ways only: a worker that
\* is at the receive takes it, or close(taskChan) makes its send panic.
BlockedLeaves(k) ==
    \/ /\ trig'[k].st = "received"
       /\ ~closed
       /\ \E w \in Workers :
            pc[w] = "recv" /\ pc'[w] = "lookup" /\ cur'[w] = trig[k].id
    \/ /\ trig'[k].st = "panicked"
       /\ ~closed /\ closed'

\* C2 (amended): the send is a blocking hand-off.  While taskChan is open every
\* issued trigger is blocked or received, and a blocked trigger stays blocked
\* until a worker that is free (at the receive) takes it, so with both workers
\* busy every additional trigger stays blocked.  Only close(taskChan) ends a
\* send otherwise: the send panics, which fails the request.
C2_BlockingHandoff ==
    /\ [](\A k \in Triggers :
            /\ ~closed => trig[k].st \in {"idle", "blocked", "received"}
            /\ trig[k].st \in {"idle", "blocked", "received", "panicked"}
            /\ closed => trig[k].st # "blocked")
    /\ [][\A k \in Triggers :
            trig[k].st = "blocked" /\ trig'[k].st # "blocked" => BlockedLeaves(k)]_vars

\* Both workers are executing and a further trigger is blocked on the send.
C2_Witness ==
    /\ ~closed
    /\ \A w \in Workers : pc[w] = "exec"
    /\ \E k \in Triggers : trig[k].st = "blocked"

\* C3: at most two playbook executions are in progress system-wide, and each
\* worker has at most one execution in progress.
C3_AtMostTwoExecutions ==
    /\ Cardinality(execs) <= 2
    /\ \A w \in Workers : Cardinality({e \in execs : e.w = w}) <= 1

\* Two executions are in progress at once.
C3_Witness == Cardinality(execs) = 2

\* The step in which worker w ends a run with its final update, and whether
\* that update changed the row.
FinishesRun(w) == pc[w] = "update" /\ pc'[w] = "recv"
UpdateApplied(w) == tasks'[cur[w]] # tasks[cur[w]]
ExecFailed(o) == o \in {"exit", "timeout", "malformed"}

\* C4: when the external execution fails (non-zero exit, timeout, malformed
\* output) the worker's final update sets the status to Failed and persists a
\* non-empty error message, so a task with status Failed always has a
\* non-empty error field.
C4_FailureRecorded ==
    /\ [](\A t \in TaskIds : tasks[t].status = Failed => tasks[t].error # "")
    /\ [][\A w \in Workers :
            FinishesRun(w) /\ ExecFailed(out[w]) /\ UpdateApplied(w)
                => tasks'[cur[w]].status = Failed /\ tasks'[cur[w]].error # ""]_vars

\* C5: an execution that exceeds the timeout ends with the task Failed and a
\* timeout-indicating error string, and never with the task Succeeded.
C5_TimeoutFails ==
    [][\A w \in Workers :
         FinishesRun(w) /\ out[w] = "timeout" /\ UpdateApplied(w)
             => /\ tasks'[cur[w]].status = Failed
                /\ tasks'[cur[w]].error = "timeout"]_vars

\* C6: when the external process fails, runAnsiblePlaybook returns the failure
\* to the worker and writes no result.json for that run.
C6_FailureSurfacedNoResult ==
    [][\A w \in Workers :
         pc[w] = "exec" /\ pc'[w] = "update" /\ ExecFailed(out'[w])
             => err'[w] # "nil" /\ ~wrote'[w]]_vars

\* A worker stops only at the receive, on the closed channel, with no job in
\* hand.
StopsOnlyIdle(w) ==
    pc'[w] = "stopped" /\ pc[w] # "stopped" => pc[w] = "recv" /\ closed /\ cur[w] = 0

\* C7 as stated: after the close every worker eventually exits, it exits only
\* after finishing its job, and every run that ends after the close (a run in
\* flight at the close) leaves its task with a terminal status persisted.
C7_DrainOnClose ==
    /\ closed ~> AllWorkersStopped
    /\ [][\A w \in Workers : StopsOnlyIdle(w)]_vars
    /\ [][\A w \in Workers :
            closed /\ FinishesRun(w) => Terminal(tasks'[cur[w]].status)]_vars

\* C7 (amended): as C7, except that the terminal status is persisted only if
\* the final updateTask succeeds: when it fails the error is printed, the row
\* is left as it was, and the worker still goes back to the receive and exits.
C7_DrainOnCloseUnlessUpdateFails ==
    /\ closed ~> AllWorkersStopped
    /\ [][\A w \in Workers : StopsOnlyIdle(w)]_vars
    /\ [][\A w \in Workers :
            closed /\ FinishesRun(w)
                => Terminal(tasks'[cur[w]].status) \/ UNCHANGED tasks]_vars

\* The queue is closed, one worker has already exited and the other is still
\* running the job it had in flight at the close.
C7_Witness ==
    /\ closed
    /\ \E w \in Workers : pc[w] = "stopped"
    /\ \E w \in Workers : pc[w] = "exec"

\* C8: teardown is ordered.  main is past wait.Wait only after the queue was
\* closed and both workers have exited; the HTTP listener is down only after
\* that, never while a worker is executing; and the process has exited only
\* after the listener was shut down.
C8_TeardownOrdered ==
    /\ mainPc # "wait" => closed /\ \A w \in Workers : pc[w] = "stopped"
    /\ srv = "down" => /\ mainPc \in {"shutdown", "exited"}
                       /\ closed
                       /\ \A w \in Workers : pc[w] = "stopped"
                       /\ execs = {}
    /\ mainPc = "exited" => srv = "down"

\* The whole teardown has happened after a job was run: the process has
\* exited and some task has a terminal status.
C8_Witness ==
    /\ mainPc = "exited"
    /\ \E t \in TaskIds : Terminal(tasks[t].status)

\* C9: when writing site.yaml or inventory.ini fails, createTask aborts: the
\* request fails and no Task row is created for that submission; so every
\* Task row has both of its files successfully written.
C9_WriteFailureAborts ==
    \A id \in TaskIds :
        /\ tasks[id].row => files[id].site /\ files[id].inventory
        /\ id < nextId /\ ~(files[id].site /\ files[id].inventory)
               => id \in aborted /\ ~tasks[id].row

\* After the lookup, the Running update and the final update a worker is
\* either at its next step or back at the receive, whatever failed.
ContinuesAfterError(w) ==
    /\ pc[w] = "lookup" /\ pc'[w] # "lookup" => pc'[w] \in {"mark", "recv"}
    /\ pc[w] = "mark" /\ pc'[w] # "mark" => pc'[w] \in {"exec", "recv"}
    /\ pc[w] = "update" /\ pc'[w] # "update" => pc'[w] = "recv"

\* C10: one bad task does not stop a worker: after a lookup error, a database
\* error of a status update or a failed execution the same worker is back at
\* the receive; there, as long as the queue is open, it is a receiver for every
\* blocked run-trigger (its receive of it is enabled); and a blocked trigger is
\* eventually taken by a worker unless the queue is closed first.
C10_WorkerKeepsServing ==
    /\ [][\A w \in Workers : ContinuesAfterError(w)]_vars
    /\ [](\A w \in Workers, k \in Triggers :
            pc[w] = "recv" /\ ~closed /\ trig[k].st = "blocked"
                => ENABLED Receive(w, k))
    /\ \A k \in Triggers :
         (trig[k].st = "blocked") ~> (trig[k].st \in {"received", "panicked"})

\* Every trigger was received and every one names an id that was never
\* submitted, so each lookup failed; there are more triggers than workers, so
\* some worker received a trigger after its lookup error.
C10_Witness ==
    /\ ~closed
    /\ \A k \in Triggers : trig[k].st = "received" /\ trig[k].id >= nextId
    /\ \A w \in Workers : pc[w] = "recv"

\* The run-triggers issued for task t so far (blocked, received or panicked).
TriggersIssued(t) == {k \in Triggers : trig[k].st # "idle" /\ trig[k].id = t}

\* C11: creation and execution are decoupled.  A createTask step persists the
\* new Task with status Pending and puts nothing on the queue; a task leaves
\* Pending only in a step of a worker that received a run-trigger for its id;
\* and the number of executions started for a task never exceeds the number of
\* run-triggers issued for it.
C11_CreationDecoupled ==
    /\ [][nextId' # nextId
            => /\ trig' = trig
               /\ \A t \in TaskIds :
                    tasks'[t] # tasks[t]
                        => t = nextId /\ tasks'[t].row /\ tasks'[t].status = Pending]_vars
    /\ [][\A t \in TaskIds :
            tasks[t].status = Pending /\ tasks'[t].status # Pending
                => \E k \in Triggers : trig[k].st = "received" /\ trig[k].id = t]_vars
    /\ [](\A t \in TaskIds : started[t] <= Cardinality(TriggersIssued(t)))

\* A task was triggered twice and executed twice, once per trigger.
C11_Witness ==
    \E t \in TaskIds :
        /\ tasks[t].row
        /\ started[t] = 2
        /\ Cardinality(TriggersIssued(t)) = 2

\* The columns of a Task row that no worker update may touch.
KeptColumns(r) == <<r.row, r.name, r.taskId, r.playbookId, r.inventoryId, r.userId>>

\* A step of worker w that writes to the store: the Running update or the
\* final update for the task it holds.
WorkerWrites(w) ==
    /\ pc[w] \in {"mark", "update"}
    /\ pc'[w] # pc[w]

\* C12: the worker's updates are targeted column updates.  A worker step for
\* task T changes at most T's status and error (and timestamp): T's name, task
\* id and Playbook/Inventory/User references and every column of every other
\* task are left as they were.
C12_TargetedColumnUpdate ==
    [][\A w \in Workers :
         WorkerWrites(w)
             => \A t \in TaskIds :
                  /\ KeptColumns(tasks'[t]) = KeptColumns(tasks[t])
                  /\ t # cur[w] => tasks'[t] = tasks[t]]_vars

\* Two tasks with different names exist, one has been run to a terminal
\* status while the other was not touched.
C12_Witness ==
    \E t, u \in TaskIds :
        /\ tasks[t].row /\ tasks[u].row
        /\ tasks[t].name # tasks[u].name
        /\ tasks[t].playbookId # tasks[u].playbookId
        /\ Terminal(tasks[t].status)
        /\ tasks[u].status = Pending

\* The lines of a text: its pieces between the newlines.
Lines(text) == Split(text, LF)
HasChar(text, c) == \E i \in 1 .. Len(text) : text[i] = c
WithoutCR(text) == SelectSeq(text, LAMBDA c : c # CR)

\* C13: for every submitted playbook body the written site.yaml consists of
\* the fixed header lines, which start with the host-group header and end with
\* the task-list marker, followed by every line of the body, in order, each
\* with its carriage returns removed and prefixed with two spaces; every line
\* ends with a newline and the file holds no carriage return.
C13_ScriptReindented ==
    disk.written =>
        LET fileLines == Lines(disk.site)
            bodyLines == Lines(form.playbook)
            n == Len(HeaderLines(variant))
        IN  /\ Len(fileLines) = n + Len(bodyLines) + 1
            /\ fileLines[Len(fileLines)] = <<>>
            /\ fileLines[1] = HostsLine
            /\ fileLines[n] = TasksMarker
            /\ \A i \in 1 .. Len(bodyLines) :
                 fileLines[n + i] = <<" ", " ">> \o WithoutCR(bodyLines[i])
            /\ ~HasChar(disk.site, CR)

\* site.yaml was written for a body of several lines with a carriage return.
C13_Witness ==
    /\ disk.written
    /\ HasChar(form.playbook, CR)
    /\ HasChar(form.playbook, LF)
    /\ HasChar(form.playbook, "a")

\* C14: for every submitted inventory body the written inventory.ini is the
\* line "[servers]", a newline, and then the body, character for character.
C14_InventoryVerbatim ==
    disk.written =>
        /\ Len(disk.inventory) = Len(form.inventory) + 2
        /\ <<disk.inventory[1]>> = ServersLine
        /\ disk.inventory[2] = LF
        /\ \A i \in 1 .. Len(form.inventory) : disk.inventory[i + 2] = form.inventory[i]

\* inventory.ini was written for a body that holds a carriage return and a
\* newline.
C14_Witness ==
    /\ disk.written
    /\ HasChar(form.inventory, CR)
    /\ HasChar(form.inventory, LF)

\* C15: a task whose persisted status is Succeeded has a result.json in its
\* task directory, written by the execution that produced the status: a final
\* update that records Succeeded belongs to a run that wrote result.json.
C15_SucceededHasResult ==
    /\ [](\A t \in TaskIds : tasks[t].status = Succeeded => files[t].result)
    /\ [][\A w \in Workers :
            FinishesRun(w) /\ UpdateApplied(w) /\ tasks'[cur[w]].status = Succeeded
                => wrote[w]]_vars

\* What a step may do to the run-triggers once the queue is closed: no trigger
\* becomes received, a panicked trigger stays panicked, a trigger issued now
\* panics at once and changes neither a task nor a worker, and no worker comes
\* to hold a task id.
ClosedQueueTakesNothing ==
    closed =>
        /\ \A k \in Triggers :
             /\ trig'[k].st = "received" => trig[k].st = "received"
             /\ trig[k].st = "panicked" => trig'[k] = trig[k]
             /\ trig[k].st = "idle" /\ trig'[k].st # "idle"
                    => /\ trig'[k].st = "panicked"
                       /\ tasks' = tasks
                       /\ UNCHANGED workerVars
        /\ \A w \in Workers : cur'[w] # cur[w] => cur'[w] = 0

\* A status is written only by a worker that holds the task's id, which it
\* got from a trigger it received.
StatusWrittenByHolder ==
    \A t \in TaskIds :
        tasks'[t].status # tasks[t].status
            => \E w \in Workers : cur[w] = t /\ pc[w] \in {"mark", "update"}

\* C16 as stated: once the queue is closed no execution is started at all,
\* and a trigger issued after the close or blocked at the close is never
\* received and never changes a status.
C16_NoExecutionAfterClose ==
    /\ [](closed => \A k \in Triggers : trig[k].st # "blocked")
    /\ [][ClosedQueueTakesNothing /\ StatusWrittenByHolder]_vars
    /\ [][closed => started' = started]_vars

\* C16 (amended): once the queue is closed no run-trigger is accepted: a
\* trigger that was blocked at the close has panicked, a trigger issued after
\* the close panics at once, neither is ever received, no worker comes to hold
\* a new task id, and statuses are written only by workers holding an id.  An
\* execution may still start after the close, but only by a worker that
\* received its trigger before the close and had not yet started its run.
C16_ClosedQueueAcceptsNothing ==
    /\ [](closed => \A k \in Triggers : trig[k].st # "blocked")
    /\ [][ClosedQueueTakesNothing /\ StatusWrittenByHolder]_vars
    /\ [][closed /\ started' # started
            => \E w \in Workers :
                 /\ pc[w] = "mark" /\ pc'[w] = "exec"
                 /\ \E k \in Triggers : trig[k].st = "received" /\ trig[k].id = cur[w]]_vars

\* The queue is closed, the workers have exited, and a trigger for an existing
\* task has panicked and left the task Pending and never started.
C16_Witness ==
    /\ closed
    /\ \A w \in Workers : pc[w] = "stopped"
    /\ \E k \in Triggers :
         /\ trig[k].st = "panicked"
         /\ tasks[trig[k].id].row
         /\ tasks[trig[k].id].status = Pending
         /\ started[trig[k].id] = 0

\* Worker w gives up the entry it holds: the lookup or the Running update
\* failed and it is back at the receive.
SkipsEntry(w) == pc[w] \in {"lookup", "mark"} /\ pc'[w] = "recv"

\* C17: when the lookup of a dequeued id fails (an unknown id always fails
\* it) or the Running update fails, the worker starts no execution for the
\* entry, writes no result document and leaves every task's row as it was; an
\* execution starts only for an existing task whose Running update was applied.
C17_FailedEntrySkipped ==
    [][\A w \in Workers :
         /\ SkipsEntry(w)
                => /\ tasks' = tasks
                   /\ files' = files
                   /\ execs' = execs
                   /\ started' = started
                   /\ cur'[w] = 0
         /\ pc[w] = "lookup" /\ ~tasks[cur[w]].row /\ pc'[w] # pc[w] => SkipsEntry(w)
         /\ pc'[w] = "exec" /\ pc[w] # "exec"
                => /\ pc[w] = "mark"
                   /\ tasks[cur[w]].row
                   /\ tasks'[cur[w]].status = Running]_vars

\* A trigger for an existing task was received and given up: the task is
\* still Pending, never started, without a result, and both workers are back
\* at the receive.
C17_Witness ==
    /\ ~closed
    /\ \A w \in Workers : pc[w] = "recv" /\ cur[w] = 0
    /\ \E k \in Triggers :
         /\ trig[k].st = "received"
         /\ tasks[trig[k].id].row
         /\ tasks[trig[k].id].status = Pending
         /\ started[trig[k].id] = 0
         /\ ~files[trig[k].id].result

\* The triggers received for task t, and the workers that hold t and have not
\* yet started its run.
TriggersReceived(t) == {k \in Triggers : trig[k].st = "received" /\ trig[k].id = t}
HoldersBeforeRun(t) == {w \in Workers : cur[w] = t /\ pc[w] \in {"lookup", "mark"}}

\* The step in which trigger k is received: exactly one worker, which was at
\* the receive, takes its id, and no other trigger changes.
ReceivedByOne(k) ==
    /\ Cardinality({w \in Workers : cur'[w] # cur[w]}) = 1
    /\ \E w \in Workers :
         pc[w] = "recv" /\ pc'[w] = "lookup" /\ cur[w] = 0 /\ cur'[w] = trig[k].id
    /\ \A j \in Triggers \ {k} : trig'[j] = trig[j]

\* C18: each run-trigger accepted by the queue is received by exactly one of
\* the two workers and processed once: a reception hands the id to one worker,
\* a received trigger is never offered again, a worker comes to hold an id only
\* by a reception, and per task the runs started plus the entries still held
\* never exceed the triggers received.
C18_ReceivedExactlyOnce ==
    /\ [][\A k \in Triggers :
            /\ trig[k].st = "blocked" /\ trig'[k].st = "received" => ReceivedByOne(k)
            /\ trig[k].st = "received" => trig'[k] = trig[k]]_vars
    /\ [][\A w \in Workers :
            cur'[w] # cur[w] /\ cur'[w] # 0
                => \E k \in Triggers :
                     /\ trig[k].st = "blocked" /\ trig'[k].st = "received"
                     /\ trig[k].id = cur'[w]]_vars
    /\ [](\A t \in TaskIds :
            started[t] + Cardinality(HoldersBeforeRun(t)) <= Cardinality(TriggersReceived(t)))

\* Two concurrent triggers for the same task were received, one by each
\* worker, and both workers are executing it.
C18_Witness ==
    \E t \in TaskIds :
        /\ Cardinality(TriggersReceived(t)) = 2
        /\ \A w \in Workers : cur[w] = t /\ pc[w] = "exec"
        /\ started[t] = 2

\* C19: at any time at most one worker is executing a given task, so that
\* the task's result.json and its status and error columns have a single
\* writer at a time.
C19_OneExecutionPerTask ==
    \A t \in TaskIds :
        /\ Cardinality({e \in execs : e.id = t}) <= 1
        /\ Cardinality({w \in Workers : cur[w] = t /\ pc[w] \in {"exec", "update"}}) <= 1

\* C20: every task that a worker marked Running eventually has the status
\* Succeeded or Failed, given that each execution ends and each final update
\* succeeds; this also holds when the queue is closed during the execution and
\* when another trigger for the same task is processed concurrently.
C20_RunningReachesTerminal ==
    \A t \in TaskIds : (tasks[t].status = Running) ~> Terminal(tasks[t].status)

\* The queue was closed while both workers execute the same task, which is
\* Running.
C20_Witness ==
    \E t \in TaskIds :
        /\ closed
        /\ tasks[t].status = Running
        /\ \A w \in Workers : cur[w] = t /\ pc[w] = "exec"

====
